---- MODULE Spec2Model ----
(***************************************************************************)
(* NPBC monitor (npbc_monitor.py): the snapshot log "BurnerLogs", the      *)
(* monthly cache "MonthlyStats", the reconciler                            *)
(* ensure_monthly_stats_up_to_date, the backfill of initialize_database    *)
(* and the query handlers, as a state machine over a discrete clock.       *)
(*                                                                         *)
(* Time is an integer number of ticks.  An hour is TicksPerHour ticks and  *)
(* a calendar month is HoursPerMonth hours (all months have one length).   *)
(* The application clock (datetime.now()) and the database clock (NOW())   *)
(* are the same clock, `now`.                                              *)
(***************************************************************************)
EXTENDS Integers, Sequences, FiniteSets, TLC

\* ------------------------------------------------------------ bounds
TicksPerHour == 2
\* Ticks of the clock in one second, the finest field of a formatted stamp.
TicksPerSecond == 2
\* Ticks of the clock in one minute, the window of the latest-status query.
TicksPerMinute == 2
HoursPerMonth == 1
MaxTicks == 3
MaxLogs == 2
MaxSkew == 3

\* ------------------------------------------------------------ calendar
MonthsPerYear == 12
StartYear == 2024
StartMonth == 11
DefaultWindowHours == 24

MonthLen == HoursPerMonth * TicksPerHour

\* The model starts on the last tick of November of StartYear, so that the
\* clock crosses a month boundary and then a year boundary.
StartTime == (StartYear * MonthsPerYear + StartMonth) * MonthLen - 1

EndTime == StartTime + MaxTicks

Procs == {1, 2}

\* date_trunc('month', t)
date_trunc_month(t) == (t \div MonthLen) * MonthLen

\* date_trunc('hour', t)
date_trunc_hour(t) == (t \div TicksPerHour) * TicksPerHour

\* date_trunc('month', t - INTERVAL '1 month')
prev_month_of(t) == date_trunc_month(t - MonthLen)

\* to_char(t, 'YYYY-MM'): the seven characters, as character codes
\* ('0' is 48, '-' is 45).
to_char_yyyy_mm(t) ==
    LET idx == t \div MonthLen
        y == idx \div MonthsPerYear
        m == (idx % MonthsPerYear) + 1
    IN << 48 + ((y \div 1000) % 10), 48 + ((y \div 100) % 10),
          48 + ((y \div 10) % 10), 48 + (y % 10), 45,
          48 + (m \div 10), 48 + (m % 10) >>

\* Text comparison a < b of two strings of character codes.
TextLess(a, b) ==
    \E i \in 1..Len(a) :
        /\ i <= Len(b)
        /\ a[i] < b[i]
        /\ \A j \in 1..(i - 1) : a[j] = b[j]

\* ------------------------------------------------------------ SQL helpers
RECURSIVE SumFFWorkTime(_)
\* SUM("FFWorkTime") over a non-empty group of "BurnerLogs" rows.
SumFFWorkTime(rows) ==
    IF rows = {} THEN 0
    ELSE LET r == CHOOSE x \in rows : TRUE
         IN r.FFWorkTime + SumFFWorkTime(rows \ {r})

RECURSIVE SetToSeq(_)
\* The rows of a set in ascending "Month" order (the order a GROUP BY 1
\* emits them in).
SetToSeq(rows) ==
    IF rows = {} THEN << >>
    ELSE LET r == CHOOSE x \in rows : \A y \in rows : x.Month <= y.Month
         IN << r >> \o SetToSeq(rows \ {r})

\* Mutant: COUNT(*) in place of SUM("FFWorkTime").
GroupByMonthCount(rows) ==
    { [Month |-> m,
       FFWorkTime |-> Cardinality({r \in rows : date_trunc_month(r.Timestamp) = m})] :
      m \in {date_trunc_month(r.Timestamp) : r \in rows} }

\* SELECT date_trunc('month', "Timestamp")::date, SUM("FFWorkTime")
\* FROM rows GROUP BY 1: one row per month that has a snapshot.
GroupByMonth(rows) ==
    { [Month |-> m,
       FFWorkTime |-> SumFFWorkTime({r \in rows : date_trunc_month(r.Timestamp) = m})] :
      m \in {date_trunc_month(r.Timestamp) : r \in rows} }

\* The conflict target of ON CONFLICT ("Month"): the table holds a row with
\* this primary key.
HasMonth(table, m) == \E i \in 1..Len(table) : table[i].Month = m

\* Mutant: the existence check looks for the current month's row.
RowExistsCurrent(table, m) == \E i \in 1..Len(table) : table[i].Month = m + MonthLen

\* SELECT 1 FROM "MonthlyStats" WHERE "Month" = m ... fetchone() is not None
RowExists(table, m) == \E i \in 1..Len(table) : table[i].Month = m

\* Mutant: a plain INSERT into a table without the key.
InsertPlain(table, rows) == table \o rows

\* Mutant: ON CONFLICT ("Month") DO UPDATE SET "FFWorkTime" = EXCLUDED."FFWorkTime".
InsertOnConflictDoUpdate(table, rows) ==
    [i \in 1..Len(table) |->
        IF \E j \in 1..Len(rows) : rows[j].Month = table[i].Month
        THEN rows[CHOOSE j \in 1..Len(rows) : rows[j].Month = table[i].Month]
        ELSE table[i]]
    \o SelectSeq(rows, LAMBDA r : ~HasMonth(table, r.Month))

\* INSERT INTO "MonthlyStats" ... ON CONFLICT ("Month") DO NOTHING: the
\* candidate rows (one per month, from a GROUP BY) whose month the table
\* does not hold are appended, the others are dropped.
InsertOnConflictDoNothing(table, rows) ==
    table \o SelectSeq(rows, LAMBDA r : ~HasMonth(table, r.Month))

\* Mutant: "Timestamp" > prev_month_start.
PrevMonthRowsExclusive(log, prevStart, curStart) ==
    SetToSeq(GroupByMonth({r \in log : r.Timestamp > prevStart /\ r.Timestamp < curStart}))

\* Mutant: the lower bound of the range is missing.
PrevMonthRowsNoLowerBound(log, prevStart, curStart) ==
    SetToSeq(GroupByMonth({r \in log : r.Timestamp < curStart}))

\* Mutant: "Timestamp" <= current_month_start.
PrevMonthRowsInclusive(log, prevStart, curStart) ==
    SetToSeq(GroupByMonth({r \in log : r.Timestamp >= prevStart /\ r.Timestamp <= curStart}))

\* The candidate rows of the reconciler's INSERT ... SELECT.
PrevMonthRows(log, prevStart, curStart) ==
    SetToSeq(GroupByMonth({r \in log : r.Timestamp >= prevStart /\ r.Timestamp < curStart}))

\* Mutant: "Timestamp" <= date_trunc('month', NOW()).
SeedRowsInclusive(log, curStart) ==
    SetToSeq(GroupByMonth({r \in log : r.Timestamp <= curStart}))

\* The candidate rows of the initialization backfill.
SeedRows(log, curStart) ==
    SetToSeq(GroupByMonth({r \in log : r.Timestamp < curStart}))

\* ------------------------------------------------------------ monthly series
\* First branch of the UNION ALL: every "MonthlyStats" row.
CachedRows(table) ==
    [i \in 1..Len(table) |->
        [yr_mon |-> to_char_yyyy_mm(table[i].Month), FFWork |-> table[i].FFWorkTime]]

\* Mutant: the live aggregate starts a month early.
LiveRowsFromPrevMonth(log, t) ==
    LET g == SetToSeq(GroupByMonth({r \in log : r.Timestamp >= prev_month_of(t)}))
    IN [i \in 1..Len(g) |->
           [yr_mon |-> to_char_yyyy_mm(g[i].Month), FFWork |-> g[i].FFWorkTime]]

\* Second branch: the live aggregate of "BurnerLogs" from the start of the
\* current month on, grouped by month.
LiveRows(log, t) ==
    LET g == SetToSeq(GroupByMonth({r \in log : r.Timestamp >= date_trunc_month(t)}))
    IN [i \in 1..Len(g) |->
           [yr_mon |-> to_char_yyyy_mm(g[i].Month), FFWork |-> g[i].FFWorkTime]]

\* Mutant: no ORDER BY.
OrderByNothing(rows) == rows

\* ORDER BY yr_mon
OrderByYrMon(rows) == SortSeq(rows, LAMBDA a, b : TextLess(a.yr_mon, b.yr_mon))

MonthlySeries(table, log, t) == OrderByYrMon(CachedRows(table) \o LiveRows(log, t))

\* ------------------------------------------------------------ state
VARIABLES now, logs, stats, pc, ts, cur, prev, ens, resp, scan

vars == << now, logs, stats, pc, ts, cur, prev, ens, resp, scan >>

\* A query parameter: omitted, text that int() rejects, or an integer.
NoArg == [k |-> "omitted", v |-> 0]

\* The LIMIT and OFFSET a windowed query ran with, and the page asked for.
NoParams == [limit |-> 0, offset |-> 0, page |-> 0]

\* The response the last step sent, if it sent one, with the state of the
\* storage handle of the request it ends.
NoResp ==
    [proc |-> 0, op |-> "none", status |-> "none", arg |-> NoArg, body |-> << >>,
     conn |-> "none", params |-> NoParams]

\* The storage handle of a request when it ends.  log_data, get_info,
\* get_consumption_by_month and get_consumption_stats call conn.close() after
\* the query only, so an exception skips it; get_stats, the reconciler and
\* initialize_database close in a finally; a request rejected with 400 or
\* ended by a failed connect has no handle.
HandleAfter(o, s) ==
    IF s \in {"400", "exit"} \/ o = "connect" THEN "none"
    ELSE IF s = "500" /\ o \in {"log", "info", "month", "hourly"} THEN "open"
    ELSE "closed"

Reply(p, o, s, b) ==
    [proc |-> p, op |-> o, status |-> s, arg |-> NoArg, body |-> b,
     conn |-> HandleAfter(o, s), params |-> NoParams]

\* What a client that reads the windowed series page after page, back to
\* back, holds: the parameters of its scan, the last page it read, the
\* primary keys of the snapshots the pages gave it, and whether a short page
\* ended the scan.  Any other request in between ends the scan.
NoScan == [arg |-> NoArg, limit |-> 0, page |-> 0, ids |-> << >>, done |-> FALSE]

Init ==
    /\ now = StartTime
    /\ logs = {}
    /\ stats = << >>
    /\ pc = [p \in Procs |-> "idle"]
    /\ ts = [p \in Procs |-> 0]
    /\ cur = [p \in Procs |-> 0]
    /\ prev = [p \in Procs |-> 0]
    /\ ens = [p \in Procs |-> "none"]
    /\ resp = NoResp
    /\ scan = NoScan

\* Back to idle with the request's locals dropped.
Finish(p) ==
    /\ pc' = [pc EXCEPT ![p] = "idle"]
    /\ ts' = [ts EXCEPT ![p] = 0]
    /\ cur' = [cur EXCEPT ![p] = 0]
    /\ prev' = [prev EXCEPT ![p] = 0]
    /\ ens' = [ens EXCEPT ![p] = "none"]

Pending == Cardinality({p \in Procs : pc[p] = "log_insert"})

\* The clock advances.
Tick ==
    /\ now < EndTime
    /\ now' = now + 1
    /\ resp' = NoResp
    /\ UNCHANGED << logs, stats, pc, ts, cur, prev, ens, scan >>

\* ------------------------------------------------------------ log_data
\* The handler connects and evaluates datetime.now() for "Timestamp".
StartLog(p) ==
    /\ pc[p] = "idle"
    /\ Cardinality(logs) + Pending < MaxLogs
    /\ pc' = [pc EXCEPT ![p] = "log_insert"]
    /\ ts' = [ts EXCEPT ![p] = now]
    /\ resp' = NoResp
    /\ UNCHANGED << now, logs, stats, cur, prev, ens, scan >>

\* Mutant: "Timestamp" is no key of "BurnerLogs".
KeyNeverTaken(log, t) == FALSE

\* "Timestamp" TIMESTAMP NOT NULL PRIMARY KEY: the log holds a row with this key.
KeyTaken(log, t) == \E r \in log : r.Timestamp = t

\* The INSERT and its commit: a second row with the same "Timestamp"
\* violates the primary key and the handler answers 500.
LogInsert(p, data) ==
    /\ pc[p] = "log_insert"
    /\ IF KeyTaken(logs, ts[p])
       THEN /\ logs' = logs
            /\ resp' = Reply(p, "log", "500", << >>)
       ELSE /\ logs' = logs \cup {[Timestamp |-> ts[p], Date |-> data.Date, FFWorkTime |-> data.FFWorkTime]}
            /\ resp' = Reply(p, "log", "200", << >>)
    /\ Finish(p)
    /\ UNCHANGED << now, stats, scan >>

\* The INSERT or the commit raises: nothing is stored, the handler answers 500.
LogFail(p) ==
    /\ pc[p] = "log_insert"
    /\ resp' = Reply(p, "log", "500", << >>)
    /\ Finish(p)
    /\ UNCHANGED << now, logs, stats, scan >>

\* ------------------------------------------------------------ monthly query
\* get_consumption_by_month calls ensure_monthly_stats_up_to_date, which
\* connects and reads the current and the previous month start from NOW().
StartMonthly(p) ==
    /\ pc[p] = "idle"
    /\ pc' = [pc EXCEPT ![p] = "ens_check"]
    /\ cur' = [cur EXCEPT ![p] = date_trunc_month(now)]
    /\ prev' = [prev EXCEPT ![p] = prev_month_of(now)]
    /\ ens' = [ens EXCEPT ![p] = "pending"]
    /\ resp' = NoResp
    /\ UNCHANGED << now, logs, stats, ts, scan >>

\* SELECT 1 FROM "MonthlyStats" WHERE "Month" = prev_month_start
EnsureCheck(p) ==
    /\ pc[p] = "ens_check"
    /\ IF RowExists(stats, prev[p])
       THEN /\ pc' = [pc EXCEPT ![p] = "mon_read"]
            /\ ens' = [ens EXCEPT ![p] = "present"]
       ELSE /\ pc' = [pc EXCEPT ![p] = "ens_insert"]
            /\ ens' = ens
    /\ resp' = NoResp
    /\ UNCHANGED << now, logs, stats, ts, cur, prev, scan >>

\* INSERT ... SELECT ... ON CONFLICT DO NOTHING, and the commit.
EnsureInsert(p) ==
    /\ pc[p] = "ens_insert"
    /\ LET rows == PrevMonthRows(logs, prev[p], cur[p])
       IN /\ stats' = InsertOnConflictDoNothing(stats, rows)
          /\ ens' = [ens EXCEPT ![p] =
                        IF rows = << >> THEN "empty"
                        ELSE IF HasMonth(stats, prev[p]) THEN "ignored"
                        ELSE "inserted"]
    /\ pc' = [pc EXCEPT ![p] = "mon_read"]
    /\ resp' = NoResp
    /\ UNCHANGED << now, logs, ts, cur, prev, scan >>

\* A statement of the reconciler raises: the exception is logged and
\* swallowed, nothing is committed, the caller goes on.
EnsureFail(p) ==
    /\ pc[p] \in {"ens_check", "ens_insert"}
    /\ pc' = [pc EXCEPT ![p] = "mon_read"]
    /\ ens' = [ens EXCEPT ![p] = "failed"]
    /\ resp' = NoResp
    /\ UNCHANGED << now, logs, stats, ts, cur, prev, scan >>

\* The UNION ALL query, on a new connection, at the instant `now`.
MonthlyRead(p) ==
    /\ pc[p] = "mon_read"
    /\ resp' = Reply(p, "month", "200", MonthlySeries(stats, logs, now))
    /\ Finish(p)
    /\ UNCHANGED << now, logs, stats, scan >>

\* The query raises: the handler has no try, the request ends in a 500.
MonthlyReadFail(p) ==
    /\ pc[p] = "mon_read"
    /\ resp' = Reply(p, "month", "500", << >>)
    /\ Finish(p)
    /\ UNCHANGED << now, logs, stats, scan >>

\* ------------------------------------------------------------ initialize_database
\* The transaction starts at the CREATE TABLE statements: NOW() is fixed here.
StartInit(p) ==
    /\ pc[p] = "idle"
    /\ pc' = [pc EXCEPT ![p] = "init_seed"]
    /\ cur' = [cur EXCEPT ![p] = date_trunc_month(now)]
    /\ resp' = NoResp
    /\ UNCHANGED << now, logs, stats, ts, prev, ens, scan >>

\* The seeding INSERT ... SELECT ... GROUP BY 1 ON CONFLICT DO NOTHING, and the commit.
InitSeed(p) ==
    /\ pc[p] = "init_seed"
    /\ stats' = InsertOnConflictDoNothing(stats, SeedRows(logs, cur[p]))
    /\ resp' = Reply(p, "init", "200", << >>)
    /\ Finish(p)
    /\ UNCHANGED << now, logs, scan >>

\* A statement raises: rollback.
InitFail(p) ==
    /\ pc[p] = "init_seed"
    /\ resp' = Reply(p, "init", "500", << >>)
    /\ Finish(p)
    /\ UNCHANGED << now, logs, stats, scan >>

\* ------------------------------------------------------------ get_db_connection
\* psycopg2.connect raises OperationalError: sys.exit(1) raises SystemExit
\* in the request that asked for the connection.  SystemExit is no
\* Exception, so no handler of the module catches it: either the server
\* layer under the handlers answers 500 and goes on, or SystemExit reaches
\* the event loop and the process stops, with every request in flight.
ConnectFail(p) ==
    /\ pc[p] \in {"idle", "mon_read"}
    /\ \/ /\ resp' = Reply(p, "connect", "500", << >>)
          /\ Finish(p)
       \/ /\ resp' = Reply(p, "connect", "exit", << >>)
          /\ pc' = [q \in Procs |-> "exit"]
          /\ ts' = [q \in Procs |-> 0]
          /\ cur' = [q \in Procs |-> 0]
          /\ prev' = [q \in Procs |-> 0]
          /\ ens' = [q \in Procs |-> "none"]
    /\ UNCHANGED << now, logs, stats, scan >>

\* ------------------------------------------------------------ get_consumption_stats
\* to_char(t, 'YYYY-MM-DD"T"HH24:MI:SS') in the model's calendar: year and
\* month, 'T' (84), the hour of the month, ':' (58), the second of the hour.
\* The format ends at the second and drops what datetime.now() has below it.
to_char_iso(t) ==
    to_char_yyyy_mm(t) \o
    << 84, 48 + ((t % MonthLen) \div TicksPerHour), 58,
       48 + ((t % TicksPerHour) \div TicksPerSecond) >>

\* timestamp_sec: int(timestamp) when the parameter is given and parses,
\* the instant 24 hours before now when it is omitted or int() raises ValueError.
StartOf(arg, t) ==
    IF arg.k = "int" THEN arg.v ELSE t - DefaultWindowHours * TicksPerHour

RECURSIVE generate_series(_, _, _)
\* generate_series(start, stop, step): start, start + step, ... while <= stop.
generate_series(start, stop, step) ==
    IF start > stop THEN << >>
    ELSE << start >> \o generate_series(start + step, stop, step)

\* Mutant: the start is not truncated to the hour.
HourBucketsNoTrunc(start, t) ==
    generate_series(start, date_trunc_hour(t), TicksPerHour)

\* The hour buckets of the query.
HourBuckets(start, t) ==
    generate_series(date_trunc_hour(start), date_trunc_hour(t), TicksPerHour)

\* Mutant: the join matches the rows by the device's date.
HourTotalByDate(log, b) ==
    LET m == {r \in log : r.Date >= b /\ r.Date < b + TicksPerHour}
    IN IF m = {} THEN 0 ELSE SumFFWorkTime(m)

\* COALESCE(SUM(bl."FFWorkTime"), 0) over the rows the LEFT JOIN matches to
\* the bucket.
HourTotal(log, b) ==
    LET m == {r \in log : r.Timestamp >= b /\ r.Timestamp < b + TicksPerHour}
    IN IF m = {} THEN 0 ELSE SumFFWorkTime(m)

HourlySeries(log, arg, t) ==
    LET b == HourBuckets(StartOf(arg, t), t)
    IN [i \in 1..Len(b) |->
           [Timestamp |-> to_char_iso(b[i]), FFWorkTime |-> HourTotal(log, b[i])]]

\* The handler: one connection, one query.
Hourly(p, arg) ==
    /\ pc[p] = "idle"
    /\ resp' = [Reply(p, "hourly", "200", HourlySeries(logs, arg, now)) EXCEPT !.arg = arg]
    /\ scan' = NoScan
    /\ UNCHANGED << now, logs, stats, pc, ts, cur, prev, ens >>

\* The query raises: the exception leaves the handler before conn.close().
HourlyFail(p) ==
    /\ pc[p] = "idle"
    /\ resp' = Reply(p, "hourly", "500", << >>)
    /\ scan' = NoScan
    /\ UNCHANGED << now, logs, stats, pc, ts, cur, prev, ens >>

\* ------------------------------------------------------------ get_info
\* WHERE "Timestamp" >= NOW() - INTERVAL '1 minute'
InfoRows(log, t) == {r \in log : r.Timestamp >= t - TicksPerMinute}

\* ORDER BY "Date" DESC LIMIT 1: a row with the greatest device date, any
\* of them when several have it.
Latest(rows) == {r \in rows : \A q \in rows : q.Date <= r.Date}

\* The handler: one connection, one query.  The status columns it selects
\* are not modelled: the row is named by the snapshot it was read from.
Info(p) ==
    /\ pc[p] = "idle"
    /\ \/ /\ InfoRows(logs, now) = {}
          /\ resp' = Reply(p, "info", "200", << >>)
       \/ \E r \in Latest(InfoRows(logs, now)) :
              resp' = Reply(p, "info", "200", << [of |-> r.Timestamp] >>)
    /\ scan' = NoScan
    /\ UNCHANGED << now, logs, stats, pc, ts, cur, prev, ens >>

\* The query raises: the exception leaves the handler before conn.close().
InfoFail(p) ==
    /\ pc[p] = "idle"
    /\ resp' = Reply(p, "info", "500", << >>)
    /\ scan' = NoScan
    /\ UNCHANGED << now, logs, stats, pc, ts, cur, prev, ens >>

\* ------------------------------------------------------------ get_stats
\* if limit > 10000: limit = 10000
MaxLimit == 10000

EffectiveLimit(limit) == IF limit > MaxLimit THEN MaxLimit ELSE limit

\* offset = (page - 1) * limit, with the limit already clamped.
OffsetOf(limit, page) == (page - 1) * EffectiveLimit(limit)

\* Mutant: text that float() rejects is taken as an omitted parameter.
StatsStatusLenient(arg) == "200"

\* float(timestamp) raises ValueError: HTTPException 400, raised before the
\* connection is asked for.
StatsStatus(arg) == IF arg.k = "text" THEN "400" ELSE "200"

\* The start of the window: fromtimestamp(float(timestamp)), or
\* NOW() - INTERVAL '24 hours' when the parameter is omitted, empty or "null".
StatsStart(arg, t) ==
    IF arg.k = "int" THEN arg.v ELSE t - DefaultWindowHours * TicksPerHour

\* WHERE "Date" >= start: the input column, the device's date.
StatsMatch(log, arg, t) == {r \in log : r.Date >= StatsStart(arg, t)}

\* ORDER BY "Date" ASC: the name is the output column of the select list,
\* the text to_char("Timestamp", ...) gives.  Rows with equal text come in
\* an order the database chooses anew for every query.
OrderByDate(rows) ==
    LET n == Cardinality(rows)
        text == [r \in rows |-> to_char_iso(r.Timestamp)]
    IN { s \in [1..n -> rows] :
           /\ \A i, j \in 1..n : i # j => s[i] # s[j]
           /\ \A i \in 1..(n - 1) : ~TextLess(text[s[i + 1]], text[s[i]]) }

\* LIMIT limit OFFSET offset
LimitOffset(s, limit, offset) ==
    SubSeq(s, offset + 1, IF offset + limit < Len(s) THEN offset + limit ELSE Len(s))

\* The select list: to_char("Timestamp", ...) AS "Date".
StatsRows(s) == [i \in 1..Len(s) |-> [Date |-> to_char_iso(s[i].Timestamp)]]

\* The client keeps a first page, and a page that follows the last one it
\* kept in the same scan; any other page ends the scan.
Collect(sc, arg, limit, page, rows) ==
    LET ids == [i \in 1..Len(rows) |-> rows[i].Timestamp]
    IN IF page = 1
       THEN [arg |-> arg, limit |-> limit, page |-> 1, ids |-> ids,
             done |-> Len(rows) < limit]
       ELSE IF arg = sc.arg /\ limit = sc.limit /\ page = sc.page + 1 /\ ~sc.done
       THEN [sc EXCEPT !.page = page, !.ids = @ \o ids, !.done = Len(rows) < limit]
       ELSE NoScan

\* The handler: the limit is clamped from above only and the page is not
\* checked, the timestamp is parsed, then one connection runs one query and
\* is closed in a finally.  PostgreSQL rejects a negative LIMIT or OFFSET.
GetStats(p, arg, limit, page) ==
    /\ pc[p] = "idle"
    /\ LET lim == EffectiveLimit(limit)
           off == OffsetOf(limit, page)
           q == [limit |-> lim, offset |-> off, page |-> page]
       IN IF StatsStatus(arg) = "400"
          THEN /\ resp' = [Reply(p, "stats", "400", << >>) EXCEPT !.arg = arg, !.params = q]
               /\ scan' = NoScan
          ELSE IF lim < 0 \/ off < 0
          THEN /\ resp' = [Reply(p, "stats", "500", << >>) EXCEPT !.arg = arg, !.params = q]
               /\ scan' = NoScan
          ELSE \E s \in OrderByDate(StatsMatch(logs, arg, now)) :
                  LET rows == LimitOffset(s, lim, off)
                  IN /\ resp' = [Reply(p, "stats", "200", StatsRows(rows))
                                    EXCEPT !.arg = arg, !.params = q]
                     /\ scan' = Collect(scan, arg, lim, page, rows)
    /\ UNCHANGED << now, logs, stats, pc, ts, cur, prev, ens >>

\* The query raises: the finally closes the connection.
GetStatsFail(p) ==
    /\ pc[p] = "idle"
    /\ resp' = Reply(p, "stats", "500", << >>)
    /\ scan' = NoScan
    /\ UNCHANGED << now, logs, stats, pc, ts, cur, prev, ens >>

\* The limits and pages a client sends.
MaxPage == 3

Limits == {-1, 1, MaxLimit + 1}

\* The timestamp parameters of the windowed series.
StatsArgs == {NoArg, [k |-> "text", v |-> 0], [k |-> "int", v |-> now - MaxSkew]}

\* The read-only queries run in one step and share nothing but the store:
\* one worker serves them.
Readers == {p \in Procs : \A q \in Procs : p <= q}

Pages == 0..MaxPage

\* The timestamp parameters a client sends.
HourlyArgs ==
    {NoArg, [k |-> "text", v |-> 0]} \cup
    {[k |-> "int", v |-> x] : x \in (now - MaxSkew)..(now + MaxSkew)}

\* The payloads a device sends: a reading dated by a device clock that
\* agrees with the server's, and one dated by a clock a month behind it.
Payloads ==
    { [Date |-> now, FFWorkTime |-> 1],
      [Date |-> now - MonthLen, FFWorkTime |-> 2] }

Next ==
    \/ Tick
    \/ \E p \in Procs : StartLog(p)
    \/ \E p \in Procs : \E data \in Payloads : LogInsert(p, data)
    \/ \E p \in Procs : LogFail(p)
    \/ \E p \in Procs : StartMonthly(p)
    \/ \E p \in Procs : EnsureCheck(p)
    \/ \E p \in Procs : EnsureInsert(p)
    \/ \E p \in Procs : EnsureFail(p)
    \/ \E p \in Procs : MonthlyRead(p)
    \/ \E p \in Procs : MonthlyReadFail(p)
    \/ \E p \in Procs : StartInit(p)
    \/ \E p \in Procs : InitSeed(p)
    \/ \E p \in Procs : InitFail(p)
    \/ \E p \in Procs : ConnectFail(p)

Spec == Init /\ [][Next]_vars

\* ------------------------------------------------------------ read-only queries
\* The snapshot logs the queries are run against: at most MaxLogs rows with
\* distinct receipt times in the last MaxSkew ticks, each dated by a device
\* clock that agrees with the server's or is a month behind it.
Snapshots(t) ==
    { [Timestamp |-> x, Date |-> x - (f - 1) * MonthLen, FFWorkTime |-> f] :
      x \in (t - MaxSkew)..t, f \in {1, 2} }

LogStores(t) ==
    { s \in SUBSET Snapshots(t) :
        /\ Cardinality(s) <= MaxLogs
        /\ \A a, b \in s : a.Timestamp = b.Timestamp => a = b }

\* The instants the queries are asked at: the last tick of a month and the
\* first tick of the next.
QueryTimes == {StartTime, StartTime + 1}

InitQuery ==
    /\ now \in QueryTimes
    /\ logs \in LogStores(now)
    /\ stats = << >>
    /\ pc = [p \in Procs |-> "idle"]
    /\ ts = [p \in Procs |-> 0]
    /\ cur = [p \in Procs |-> 0]
    /\ prev = [p \in Procs |-> 0]
    /\ ens = [p \in Procs |-> "none"]
    /\ resp = NoResp
    /\ scan = NoScan

NextQuery ==
    \/ \E p \in Readers : \E arg \in HourlyArgs : Hourly(p, arg)
    \/ \E p \in Readers : HourlyFail(p)
    \/ \E p \in Readers : Info(p)
    \/ \E p \in Readers : InfoFail(p)
    \/ \E p \in Readers : \E arg \in StatsArgs : \E limit \in Limits : \E page \in Pages :
          GetStats(p, arg, limit, page)
    \/ \E p \in Readers : GetStatsFail(p)

SpecQuery == InitQuery /\ [][NextQuery]_vars

\* ------------------------------------------------------------ properties
IsCached(table, m) == \E i \in 1..Len(table) : table[i].Month = m

\* The snapshots received / dated within the month that starts at m.
ReceivedIn(m) == {r \in logs : r.Timestamp >= m /\ r.Timestamp < m + MonthLen}

DatedIn(m) == {r \in logs : r.Date >= m /\ r.Date < m + MonthLen}

\* Row i of the cache is written by this step.
Written(i) == i > Len(stats) \/ stats'[i] # stats[i]

\* The month number a 'YYYY-MM' text names.
MonthIndexOf(s) ==
    ((s[1] - 48) * 1000 + (s[2] - 48) * 100 + (s[3] - 48) * 10 + (s[4] - 48)) * MonthsPerYear
    + ((s[6] - 48) * 10 + (s[7] - 48)) - 1

MonthlyAnswered == resp.op = "month" /\ resp.status = "200"

\* C1 as stated: every cache row written by the reconciler or the backfill
\* holds the sum of FFWorkTime over the snapshots whose device date ("Date")
\* lies in the row's month, as the log stands at that step.
C1_TotalByDeviceDate ==
    [][\A i \in 1..Len(stats') :
          Written(i) => stats'[i].FFWorkTime = SumFFWorkTime(DatedIn(stats'[i].Month))]_vars

\* C1 amended: every cache row written by the reconciler or the backfill is
\* for a month before the current one and holds the sum of FFWorkTime over
\* the snapshots whose receipt time ("Timestamp") lies in the row's month,
\* as the log stands at that step.
C1_TotalByReceiptTime ==
    [][\A i \in 1..Len(stats') :
          Written(i) =>
            /\ stats'[i].Month < date_trunc_month(now)
            /\ ReceivedIn(stats'[i].Month) # {}
            /\ stats'[i].FFWorkTime = SumFFWorkTime(ReceivedIn(stats'[i].Month))]_vars

\* A month is cached whose snapshots carry a device date of another month.
C1_Witness ==
    \E i \in 1..Len(stats) :
        /\ stats[i].FFWorkTime = SumFFWorkTime(ReceivedIn(stats[i].Month))
        /\ stats[i].FFWorkTime # SumFFWorkTime(DatedIn(stats[i].Month))

C3_NoCompletedMonthMissing ==
    [][\A p \in Procs :
          EnsureInsert(p) =>
            \A r \in logs :
                r.Timestamp < cur[p] => IsCached(stats', date_trunc_month(r.Timestamp))]_vars

\* C3 amended: the reconciler writes a row for the month immediately before
\* the month it read from the clock, and for no other: that row is there
\* after its insert when the month has a snapshot, and every earlier month
\* is cached after it only if it was cached before.
C3_OnlyPreviousMonthCreated ==
    [][\A p \in Procs :
          EnsureInsert(p) =>
            /\ prev[p] = cur[p] - MonthLen
            /\ cur[p] <= date_trunc_month(now)
            /\ \A i \in 1..Len(stats') : Written(i) => stats'[i].Month = cur[p] - MonthLen
            /\ ReceivedIn(cur[p] - MonthLen) # {} => IsCached(stats', cur[p] - MonthLen)
            /\ \A r \in logs :
                  r.Timestamp < cur[p] - MonthLen =>
                     (IsCached(stats', date_trunc_month(r.Timestamp))
                        <=> IsCached(stats, date_trunc_month(r.Timestamp)))]_vars

\* A monthly query has been answered with the previous month cached while an
\* older month that has snapshots is not.
C3_Witness ==
    /\ MonthlyAnswered
    /\ IsCached(stats, prev_month_of(now))
    /\ \E r \in logs :
          /\ r.Timestamp < prev_month_of(now)
          /\ ~IsCached(stats, date_trunc_month(r.Timestamp))

C6_OnlyCompletedMonths ==
    \A i \in 1..Len(stats) : stats[i].Month < date_trunc_month(now)

\* The backfill has just run while the current month has a snapshot: the
\* previous month is cached, the current one is not.
C6_Witness ==
    /\ resp.op = "init" /\ resp.status = "200"
    /\ IsCached(stats, prev_month_of(now))
    /\ \E r \in logs : r.Timestamp = date_trunc_month(now)

\* C7: a step never changes or removes a row that the cache holds.
C7_RowsNeverChange ==
    [][\A i \in 1..Len(stats) : Len(stats') >= i /\ stats'[i] = stats[i]]_vars

\* The backfill has run again over a cached month whose snapshots now sum to
\* another total, and the row is as it was.
C7_Witness ==
    /\ resp.op = "init" /\ resp.status = "200"
    /\ \E i \in 1..Len(stats) :
          stats[i].FFWorkTime # SumFFWorkTime(ReceivedIn(stats[i].Month))

\* C8: the rows of a monthly series answered are strictly ascending by
\* month, and their months are exactly the cached months and, when a
\* snapshot was received in it, the current month.
C8_StrictlyAscendingOnePerMonth ==
    MonthlyAnswered =>
        /\ \A i \in 1..(Len(resp.body) - 1) :
              MonthIndexOf(resp.body[i].yr_mon) < MonthIndexOf(resp.body[i + 1].yr_mon)
        /\ {MonthIndexOf(resp.body[i].yr_mon) : i \in 1..Len(resp.body)}
             = {stats[i].Month \div MonthLen : i \in 1..Len(stats)}
               \cup {r.Timestamp \div MonthLen :
                        r \in {x \in logs : x.Timestamp >= date_trunc_month(now)}}

\* A series of two rows from a cache that stores the later month first.
C8_Witness ==
    /\ MonthlyAnswered
    /\ Len(resp.body) >= 2
    /\ \E i \in 1..(Len(stats) - 1) : stats[i].Month > stats[i + 1].Month

\* C9 as stated: a monthly series answered is the cached rows and exactly
\* one row for the current month, which holds the sum of FFWorkTime over the
\* snapshots whose device date lies between the start of the month and now
\* (0 when there is none).
C9_LiveRowAlwaysPresentByDeviceDate ==
    MonthlyAnswered =>
        /\ Len(resp.body) = Len(stats) + 1
        /\ \A i \in 1..Len(stats) : \E j \in 1..Len(resp.body) :
              resp.body[j] = [yr_mon |-> to_char_yyyy_mm(stats[i].Month),
                              FFWork |-> stats[i].FFWorkTime]
        /\ \E j \in 1..Len(resp.body) :
              resp.body[j] =
                 [yr_mon |-> to_char_yyyy_mm(now),
                  FFWork |-> SumFFWorkTime({r \in logs :
                                 r.Date >= date_trunc_month(now) /\ r.Date <= now})]

\* C9 amended: a monthly series answered is the cached rows and, exactly
\* when a snapshot was received since the start of the current month, one
\* row for the current month, which holds the sum of FFWorkTime over those
\* snapshots (by receipt time); there is no current-month row otherwise.
C9_LiveRowByReceiptTime ==
    MonthlyAnswered =>
        LET live == {r \in logs : r.Timestamp >= date_trunc_month(now)}
        IN /\ Len(resp.body) = Len(stats) + (IF live = {} THEN 0 ELSE 1)
           /\ \A i \in 1..Len(stats) : \E j \in 1..Len(resp.body) :
                 resp.body[j] = [yr_mon |-> to_char_yyyy_mm(stats[i].Month),
                                 FFWork |-> stats[i].FFWorkTime]
           /\ live # {} =>
                 \E j \in 1..Len(resp.body) :
                    resp.body[j] = [yr_mon |-> to_char_yyyy_mm(now),
                                    FFWork |-> SumFFWorkTime(live)]

\* A series with a cached row and a live row, the live row from a snapshot
\* that carries a device date of the month before.
C9_Witness ==
    /\ MonthlyAnswered
    /\ stats # << >>
    /\ Len(resp.body) = Len(stats) + 1
    /\ \E r \in logs : r.Timestamp >= date_trunc_month(now) /\ r.Date < date_trunc_month(now)

\* The tick a 'YYYY-MM"T"H:S' text names: the first tick of its second.
TickOf(s) ==
    MonthIndexOf(s) * MonthLen + (s[9] - 48) * TicksPerHour + (s[11] - 48) * TicksPerSecond

\* The last step answered an hourly series.
HourlyAnswered == resp.op = "hourly" /\ resp.status = "200"

\* The start instant of an hourly query: the parameter, or now minus 24 hours.
RequestedStart(arg) == IF arg.k = "int" THEN arg.v ELSE now - 24 * TicksPerHour

\* The rows of the series run from the hour b0 to the hour bN, one per hour.
HourlyRowsSpan(body, b0, bN) ==
    /\ Len(body) = (bN - b0) \div TicksPerHour + 1
    /\ Len(body) >= 1
    /\ TickOf(body[1].Timestamp) = b0
    /\ TickOf(body[Len(body)].Timestamp) = bN
    /\ \A i \in 1..(Len(body) - 1) :
          TickOf(body[i + 1].Timestamp) = TickOf(body[i].Timestamp) + TicksPerHour

\* C10 as stated: for any start, also one later than now, the hourly series
\* has (bN - b0)/1h + 1 rows, from b0 to bN, an hour apart.
C10_SeriesSpansAnyStart ==
    HourlyAnswered =>
        HourlyRowsSpan(resp.body,
                       (RequestedStart(resp.arg) \div TicksPerHour) * TicksPerHour,
                       (now \div TicksPerHour) * TicksPerHour)

\* C10 amended: for a start whose hour b0 is not after the current hour bN
\* the hourly series has (bN - b0)/1h + 1 rows, from b0 to bN, an hour
\* apart; for a start in a later hour the series is empty.
C10_SeriesSpansStartToNow ==
    HourlyAnswered =>
        LET b0 == (RequestedStart(resp.arg) \div TicksPerHour) * TicksPerHour
            bN == (now \div TicksPerHour) * TicksPerHour
        IN IF b0 <= bN THEN HourlyRowsSpan(resp.body, b0, bN)
           ELSE resp.body = << >>

\* A series from a start given mid-hour, with an hour that has a snapshot
\* and an hour that has none.
C10_Witness ==
    /\ HourlyAnswered
    /\ resp.arg.k = "int"
    /\ resp.arg.v % TicksPerHour # 0
    /\ Len(resp.body) >= 2
    /\ \E i, j \in 1..Len(resp.body) :
          resp.body[i].FFWorkTime = 0 /\ resp.body[j].FFWorkTime > 0

\* ------------------------------------------------------------ C11
\* The snapshots received in the hour that starts at b, and those the
\* device dated in it.
ReceivedInHour(b) == {r \in logs : r.Timestamp >= b /\ r.Timestamp < b + TicksPerHour}

DatedInHour(b) == {r \in logs : r.Date >= b /\ r.Date < b + TicksPerHour}

\* C11 as stated: every row of the hourly series carries the sum of
\* FFWorkTime over the snapshots whose device date lies in [b, b + 1h), and
\* 0 when there is none.
C11_HourTotalByDeviceDate ==
    HourlyAnswered =>
        \A i \in 1..Len(resp.body) :
            resp.body[i].FFWorkTime = SumFFWorkTime(DatedInHour(TickOf(resp.body[i].Timestamp)))

\* C11 amended: every row of the hourly series carries the sum of FFWorkTime
\* over exactly the snapshots whose receipt time lies in [b, b + 1h),
\* whatever their device dates, and is present with total 0 when no
\* snapshot was received in that hour.
C11_HourTotalByReceiptTime ==
    HourlyAnswered =>
        \A i \in 1..Len(resp.body) :
            LET b == TickOf(resp.body[i].Timestamp)
            IN /\ resp.body[i].FFWorkTime = SumFFWorkTime(ReceivedInHour(b))
               /\ ReceivedInHour(b) = {} => resp.body[i].FFWorkTime = 0

\* A series with a bucket that sums two snapshots received in its hour, one
\* of them dated by the device in another hour, and a bucket without any.
C11_Witness ==
    /\ HourlyAnswered
    /\ \E i, j \in 1..Len(resp.body) :
          LET b == TickOf(resp.body[i].Timestamp)
          IN /\ Cardinality(ReceivedInHour(b)) = 2
             /\ ReceivedInHour(b) # DatedInHour(b)
             /\ resp.body[i].FFWorkTime = SumFFWorkTime(ReceivedInHour(b))
             /\ ReceivedInHour(TickOf(resp.body[j].Timestamp)) = {}
             /\ resp.body[j].FFWorkTime = 0

\* ------------------------------------------------------------ C12
\* C12: for a fixed start and a fixed limit the pages 1..k of the windowed
\* series, put end to end, are the rows of one unbounded query over the
\* range: in ascending order, no snapshot twice, and none missing once a
\* short page has ended the scan.
C12_PagesReproduceQuery ==
    /\ \A i, j \in 1..Len(scan.ids) :
          /\ i # j => scan.ids[i] # scan.ids[j]
          /\ i < j => ~TextLess(to_char_iso(scan.ids[j]), to_char_iso(scan.ids[i]))
    /\ scan.done =>
          {scan.ids[i] : i \in 1..Len(scan.ids)} =
              {r.Timestamp : r \in StatsMatch(logs, scan.arg, now)}

\* ------------------------------------------------------------ C13
\* C13: every well-formed ingestion whose statements run is acknowledged and
\* appends exactly one new row, also when its payload equals a stored one
\* and when another ingestion read the same receipt time off the clock.
C13_EveryIngestStored ==
    [][\A p \in Procs : \A data \in Payloads :
          LogInsert(p, data) =>
              /\ resp'.status = "200"
              /\ Cardinality(logs') = Cardinality(logs) + 1]_vars

\* ------------------------------------------------------------ C14
\* The last step ended a request on a storage failure: the insert raised,
\* or the connection could not be established.
StorageFailed ==
    \/ resp.op = "log" /\ resp.status # "200"
    \/ resp.op = "connect"

\* C14: when storage fails during a request the caller gets the generic
\* failure answer, the step leaves the snapshots as they were, and the
\* service keeps serving requests.
C14_FailureAnsweredAndServing ==
    [][StorageFailed' =>
          /\ resp'.status = "500"
          /\ logs' = logs
          /\ \A p \in Procs : pc'[p] # "exit"]_vars

\* ------------------------------------------------------------ C15
\* C15: a request that has ended, on whatever exit path, has released the
\* storage handle it opened.
C15_FinishedRequestHoldsNoHandle ==
    resp.op # "none" => resp.conn # "open"

\* ------------------------------------------------------------ C16
\* The last step answered a query whose timestamp parameter does not parse.
UnparsableAsked == resp.arg.k = "text" /\ resp.op \in {"stats", "hourly"}

C17_AppendOnlyUniqueKeys ==
    /\ [](\A a, b \in logs : a.Timestamp = b.Timestamp => a = b)
    /\ [][/\ logs \subseteq logs'
          /\ logs' # logs =>
                /\ \E p \in Procs : pc[p] = "log_insert" /\ pc'[p] = "idle"
                /\ resp'.op = "log"
                /\ resp'.status = "200"
                /\ Cardinality(logs') = Cardinality(logs) + 1]_vars

\* A second snapshot has just been stored beside an older one, after a
\* reconciler wrote a rollup row.
C17_Witness ==
    /\ resp.op = "log"
    /\ resp.status = "200"
    /\ Cardinality(logs) = 2
    /\ Len(stats) >= 1

\* ------------------------------------------------------------ C18
\* C18: whatever integers the windowed series is given as limit and page,
\* the limit it runs with is at most 10000, the page is at least 1, the
\* offset is (page - 1) * limit and not negative, and the answer has at most
\* 10000 rows.
C18_LimitPageOffsetInRange ==
    resp.op = "stats" /\ resp.params # NoParams =>
        /\ resp.params.limit <= MaxLimit
        /\ resp.params.page >= 1
        /\ resp.params.offset = (resp.params.page - 1) * resp.params.limit
        /\ resp.params.offset >= 0
        /\ Len(resp.body) <= MaxLimit

\* ------------------------------------------------------------ C19
\* C19: at every state the cached total of a month equals the sum the
\* aggregation computes for that month from the snapshots stored now: no
\* ingest that read its receipt time before the month ended commits its row
\* after a reconciler has cached the month.
C19_CachedTotalCurrent ==
    \A i \in 1..Len(stats) :
        stats[i].FFWorkTime = SumFFWorkTime(ReceivedIn(stats[i].Month))

\* ------------------------------------------------------------ C20
RECURSIVE SumFFWork(_, _)
\* The sum of the totals of the first n rows of a monthly series.
SumFFWork(body, n) == IF n = 0 THEN 0 ELSE SumFFWork(body, n - 1) + body[n].FFWork

\* C20: in a monthly series answered no snapshot is counted in two rows:
\* the rows name pairwise different months, the total of a row is at most
\* the sum of FFWorkTime over the snapshots received in its month, and the
\* sum of all the totals is at most the sum over all stored snapshots.
C20_NoSnapshotCountedTwice ==
    MonthlyAnswered =>
        /\ \A i, j \in 1..Len(resp.body) :
              i # j => resp.body[i].yr_mon # resp.body[j].yr_mon
        /\ \A i \in 1..Len(resp.body) :
              resp.body[i].FFWork <=
                  SumFFWorkTime(ReceivedIn(MonthIndexOf(resp.body[i].yr_mon) * MonthLen))
        /\ SumFFWork(resp.body, Len(resp.body)) <= SumFFWorkTime(logs)

\* A series with a cached row and a live row that between them count both
\* stored snapshots, each once.
C20_Witness ==
    /\ MonthlyAnswered
    /\ stats # << >>
    /\ Len(resp.body) = Len(stats) + 1
    /\ Cardinality(logs) = 2
    /\ SumFFWork(resp.body, Len(resp.body)) = SumFFWorkTime(logs)

====
